---- MODULE Spec2Model ----
(***************************************************************************)
(* Hotel revenue calculator (src/App.tsx and its earlier variant).         *)
(*                                                                         *)
(* A string is a sequence of one-character strings, so that split, trim,   *)
(* replace and parseInt are computed character by character as the         *)
(* JavaScript built-ins compute them.  A JavaScript number is an integer   *)
(* here: every amount of the bounded inputs stays far below 2^53, where    *)
(* JavaScript arithmetic on integers is exact.  The one division of the    *)
(* program (the daily average) is computed as an IEEE-754 double.          *)
(***************************************************************************)
EXTENDS Integers, Sequences, FiniteSets, TLC

VARIABLES
    raw,                 \* Entry Parser: the string handed to processDayRevenue
    result,              \* Entry Parser: what processDayRevenue returned
    storage,             \* localStorage: one bucket of text per (year, month)
    currentDate,         \* useState currentDate
    revenueData,         \* useState revenueData
    searchTerm,          \* useState searchTerm
    viewMode,            \* useState viewMode
    comparisonDateA,     \* useState comparisonDateA
    comparisonDateB,     \* useState comparisonDateB
    currentMonthSummary, \* useMemo currentMonthSummary
    summaryA,            \* useMemo summaryA
    summaryB,            \* useMemo summaryB
    csvContent,          \* handleExport: the text of the last file downloaded
    crashed,             \* a render threw: React unmounted the view
    steps,               \* number of handlers run so far (bounds the search)
    typed,               \* the text put into the cells of the table
    earlierView,         \* the memos of the earlier variant of the App
    props,               \* ComparisonChart: dataA, dataB, nameA, nameB
    chartData,           \* ComparisonChart: the rows handed to the bar chart
    roomData,            \* per-room variant: day -> room -> raw string
    scanOrder,           \* per-room variant: the order the cells are scanned in
    roomSummary          \* per-room variant: day totals and overnight tally

vars == <<raw, result, storage, currentDate, revenueData, searchTerm, viewMode,
          comparisonDateA, comparisonDateB, currentMonthSummary,
          summaryA, summaryB, csvContent, crashed, steps, typed, earlierView,
          props, chartData, roomData, scanOrder, roomSummary>>

parserVars == <<raw, result>>

viewVars == <<storage, currentDate, revenueData, searchTerm, viewMode,
              comparisonDateA, comparisonDateB, currentMonthSummary, summaryA,
              summaryB, csvContent, crashed, steps>>

\* The earlier variant's memos, the chart and the per-room variant: what the
\* view of src/App.tsx does not hold.
otherVars == <<typed, earlierView, props, chartData, roomData, scanOrder,
               roomSummary>>

----------------------------------------------------------------------------
(* Characters and the string built-ins.                                    *)

DigitChars == <<"0", "1", "2", "3", "4", "5", "6", "7", "8", "9">>

IsDigit(c) == \E i \in 1..10 : DigitChars[i] = c

DigitVal(c) == (CHOOSE i \in 1..10 : DigitChars[i] = c) - 1

\* What String.prototype.trim and the regular expression class \s take as
\* white space (the characters of it that the inputs use).
IsWhiteSpace(c) == c \in {" ", "\t", "\n"}

RECURSIVE TrimStart(_)
TrimStart(s) ==
    IF s # <<>> /\ IsWhiteSpace(Head(s)) THEN TrimStart(Tail(s)) ELSE s

RECURSIVE TrimEnd(_)
TrimEnd(s) ==
    IF s # <<>> /\ IsWhiteSpace(s[Len(s)])
    THEN TrimEnd(SubSeq(s, 1, Len(s) - 1))
    ELSE s

\* value.trim()
Trim(s) == TrimEnd(TrimStart(s))

\* value.split(sep) for a one-character separator: the pieces between the
\* separators, empty pieces included.
RECURSIVE SplitFrom(_, _, _, _)
SplitFrom(s, sep, cur, acc) ==
    IF s = <<>> THEN Append(acc, cur)
    ELSE IF Head(s) = sep THEN SplitFrom(Tail(s), sep, <<>>, Append(acc, cur))
    ELSE SplitFrom(Tail(s), sep, Append(cur, Head(s)), acc)

Split(s, sep) == SplitFrom(s, sep, <<>>, <<>>)

\* .filter(Boolean) on strings: the empty string is the only falsy one.
FilterBoolean(ss) == SelectSeq(ss, LAMBDA e : e # <<>>)

\* entry.replace(/[\.,]/g, '')
StripSeparators(s) == SelectSeq(s, LAMBDA c : c \notin {".", ","})

\* parseInt(s, 10): skips leading white space, takes an optional sign, then
\* the longest run of decimal digits; NaN when that run is empty.  What
\* follows the digits is ignored.
RECURSIVE DigitsPrefix(_, _, _)
DigitsPrefix(s, n, any) ==
    IF s # <<>> /\ IsDigit(Head(s))
    THEN DigitsPrefix(Tail(s), 10 * n + DigitVal(Head(s)), TRUE)
    ELSE [isNaN |-> ~any, value |-> n]

parseInt(s) ==
    LET t    == TrimStart(s)
        neg  == t # <<>> /\ Head(t) = "-"
        body == IF t # <<>> /\ Head(t) \in {"-", "+"} THEN Tail(t) ELSE t
        p    == DigitsPrefix(body, 0, FALSE)
    IN  [isNaN |-> p.isNaN, value |-> IF neg THEN 0 - p.value ELSE p.value]

\* (n || 0): NaN and 0 are the falsy numbers.
OrZero(p) == IF p.isNaN THEN 0 ELSE p.value

\* The values JSON.parse may give a day that are no strings: null, a number
\* other than 0, and an object room -> string (the RevenueData of
\* src/types.ts).  Each is a sequence of one element that is no character,
\* so none is taken for a string.
NullCell == <<"null">>

NumberCell == <<"number">>

RoomsCell == <<"object">>

IsString(v) == v \notin {NullCell, NumberCell, RoomsCell}

\* What !v and (v || ...) take for false: '' and null among these values.
IsFalsy(v) == v = <<>> \/ v = NullCell

\* A call that ended in a TypeError instead of returning.
Thrown == [thrown |-> TRUE]

IsThrown(s) == "thrown" \in DOMAIN s

----------------------------------------------------------------------------
(* The Entry Parser.                                                       *)

Scale == 1000

OvernightThreshold == 150000

\* const multipliedValue = (parseInt(cleanedEntry, 10) || 0) * 1000
multipliedValue(entry) == OrZero(parseInt(StripSeparators(entry))) * Scale

\* value.split(' ').filter(Boolean)
Entries(value) == FilterBoolean(Split(value, " "))

\* The reduce callback, folded over the entries from the left.
RECURSIVE Reduce(_, _)
Reduce(entries, acc) ==
    IF entries = <<>> THEN acc
    ELSE LET v    == multipliedValue(Head(entries))
             over == v > OvernightThreshold
         IN  Reduce(Tail(entries),
                    [total          |-> acc.total + v,
                     hasOvernight   |-> acc.hasOvernight \/ over,
                     overnightCount |-> acc.overnightCount + (IF over THEN 1 ELSE 0)])

ZeroResult == [total |-> 0, hasOvernight |-> FALSE, overnightCount |-> 0]

\* value?.trim() is undefined for null, and a TypeError (trim is not a
\* function) for a number or an object.
processDayRevenue(value) ==
    IF value = NullCell THEN ZeroResult
    ELSE IF ~IsString(value) THEN Thrown
    ELSE IF Trim(value) = <<>> THEN ZeroResult
    ELSE Reduce(Entries(value), ZeroResult)

----------------------------------------------------------------------------
(* JavaScript numbers that are not integers: the IEEE-754 double.          *)
(* A double is [neg, int, frac]: its sign, its integer part and the bits   *)
(* of its fraction (most significant first, no trailing zero), 53          *)
(* significant bits at most.                                               *)

MantissaBits == 53

\* Bits generated before rounding: a quotient by a day count (at most 31)
\* has fewer than 6 zero bits before its first significant bit.
QuotientBits == 60

RECURSIVE BitLength(_)
BitLength(n) == IF n = 0 THEN 0 ELSE 1 + BitLength(n \div 2)

RECURSIVE TrimZeros(_)
TrimZeros(bits) ==
    IF bits # <<>> /\ bits[Len(bits)] = 0
    THEN TrimZeros(SubSeq(bits, 1, Len(bits) - 1))
    ELSE bits

\* The first n binary digits of r / b (0 <= r < b), then the remainder left.
RECURSIVE FractionBits(_, _, _, _)
FractionBits(r, b, n, acc) ==
    IF n = 0 THEN [bits |-> acc, rem |-> r]
    ELSE FractionBits((2 * r) % b, b, n - 1, Append(acc, (2 * r) \div b))

\* bits + 1 in the last place: the carry out of the first place and the sum.
RECURSIVE Increment(_)
Increment(bits) ==
    IF bits = <<>> THEN [carry |-> 1, bits |-> <<>>]
    ELSE IF bits[Len(bits)] = 0
         THEN [carry |-> 0,
               bits  |-> Append(SubSeq(bits, 1, Len(bits) - 1), 1)]
         ELSE LET up == Increment(SubSeq(bits, 1, Len(bits) - 1))
              IN  [carry |-> up.carry, bits |-> Append(up.bits, 0)]

FirstOne(bits) ==
    IF \E i \in 1..Len(bits) : bits[i] = 1
    THEN CHOOSE i \in 1..Len(bits) :
             bits[i] = 1 /\ \A j \in 1..(i - 1) : bits[j] = 0
    ELSE 0

\* Round to nearest, ties to even: int + 0.bits (+ something below the last
\* bit when sticky) to a double of MantissaBits significant bits.
RoundToDouble(neg, int, bits, sticky) ==
    LET first == FirstOne(bits)
        kept  == IF int > 0 THEN MantissaBits - BitLength(int)
                 ELSE first + MantissaBits - 1
    IN  IF int = 0 /\ first = 0
        THEN [neg |-> FALSE, int |-> 0, frac |-> <<>>]
        ELSE IF Len(bits) <= kept
        THEN [neg |-> neg, int |-> int, frac |-> TrimZeros(bits)]
        ELSE LET head  == SubSeq(bits, 1, kept)
                 guard == bits[kept + 1]
                 rest  == sticky \/ \E i \in (kept + 2)..Len(bits) : bits[i] = 1
                 odd   == IF kept = 0 THEN int % 2 = 1 ELSE head[kept] = 1
                 up    == Increment(head)
             IN  IF guard = 1 /\ (rest \/ odd)
                 THEN [neg |-> neg, int |-> int + up.carry,
                       frac |-> TrimZeros(up.bits)]
                 ELSE [neg |-> neg, int |-> int, frac |-> TrimZeros(head)]

\* The double of an integer below 2^53.
DoubleOfInt(n) ==
    [neg |-> n < 0, int |-> IF n < 0 THEN 0 - n ELSE n, frac |-> <<>>]

\* a / b in JavaScript, for integers a and b with b > 0.
Divide(a, b) ==
    LET mag == IF a < 0 THEN 0 - a ELSE a
        q   == FractionBits(mag % b, b, QuotientBits, <<>>)
    IN  RoundToDouble(a < 0, mag \div b, q.bits, q.rem # 0)

\* The exact product of a double by a small positive integer b.
RECURSIVE TimesBits(_, _, _, _)
TimesBits(bits, b, carry, acc) ==
    IF bits = <<>> THEN [carry |-> carry, bits |-> acc]
    ELSE LET t == bits[Len(bits)] * b + carry
         IN  TimesBits(SubSeq(bits, 1, Len(bits) - 1), b, t \div 2,
                       <<t % 2>> \o acc)

ExactTimes(x, b) ==
    LET f == TimesBits(x.frac, b, 0, <<>>)
    IN  [neg |-> x.neg, int |-> x.int * b + f.carry, frac |-> f.bits]

\* x * b in JavaScript.
Times(x, b) ==
    LET e == ExactTimes(x, b) IN RoundToDouble(e.neg, e.int, e.frac, FALSE)

----------------------------------------------------------------------------
(* Dates.  A Date is [y, m, d] with m the JavaScript month, 0..11.         *)

IsLeapYear(y) == (y % 4 = 0 /\ y % 100 # 0) \/ y % 400 = 0

\* new Date(y, m + 1, 0).getDate(): the last day of month m of year y.
DaysInMonth(y, m) ==
    IF m = 1 THEN (IF IsLeapYear(y) THEN 29 ELSE 28)
    ELSE IF m \in {3, 5, 8, 10} THEN 30
    ELSE 31

\* What the Date constructor and setMonth make of a month outside 0..11 and
\* of a day past the end of the month: they carry into the year and into
\* the next month.
NormalizeDate(y, m, d) ==
    LET yy == y + ((m - (m % 12)) \div 12)
        mm == m % 12
    IN  IF d <= DaysInMonth(yy, mm) THEN [y |-> yy, m |-> mm, d |-> d]
        ELSE IF mm = 11
             THEN [y |-> yy + 1, m |-> 0, d |-> d - DaysInMonth(yy, mm)]
             ELSE [y |-> yy, m |-> mm + 1, d |-> d - DaysInMonth(yy, mm)]

\* d.setMonth(d.getMonth() - 1)
PreviousMonth(date) == NormalizeDate(date.y, date.m - 1, date.d)

\* new Date(value + '-02') for the value "YYYY-MM" of a month input.
DateOfMonthInput(value) == [y |-> value.y, m |-> value.m, d |-> 2]

\* `${year}-${month}` with month = (m + 1) padded to two digits: the part of
\* the storage key that names the bucket.
StorageKey(y, m) == <<y, m + 1>>

\* date.toLocaleString('vi-VN', {month: 'long', year: 'numeric'})
MonthName(date) == <<date.m + 1, date.y>>

----------------------------------------------------------------------------
(* localStorage.  A bucket holds no item, a text JSON.parse rejects, or    *)
(* the JSON text of an object day -> string; that text is kept as the      *)
(* object, since JSON.stringify followed by JSON.parse returns an object   *)
(* of strings keyed by integers as it was.                                 *)

NoItem == [kind |-> "null"]

Corrupt == [kind |-> "corrupt"]

JsonText(data) == [kind |-> "json", data |-> data]

\* newDate.toISOString() as stored under lastDate, read back by new Date().
IsoText(date) == [kind |-> "iso", date |-> date]

\* The viewMode item when no session stored one.
NoMode == "null"

EmptyData == <<>>

\* data[day] || ''
Cell(data, day) ==
    IF day \in DOMAIN data /\ ~IsFalsy(data[day]) THEN data[day] ELSE <<>>

\* The update forgetting the spread of prevData.
WithDayOnly(prevData, day, value) == [d \in {day} |-> value]

\* { ...prevData, [day]: sanitizedValue }
WithDay(prevData, day, value) ==
    [d \in (DOMAIN prevData) \cup {day} |->
        IF d = day THEN value ELSE prevData[d]]

\* savedData ? JSON.parse(savedData) : {} inside try/catch: the catch
\* branch answers {} as well.
LoadRevenueData(store, y, m) ==
    LET item == store.data[StorageKey(y, m)]
    IN  IF item.kind = "json" THEN item.data ELSE EmptyData

----------------------------------------------------------------------------
(* The month summaries.                                                    *)

ZeroDouble == DoubleOfInt(0)

NoTotals == [monthlyTotal |-> 0, totalOvernightStays |-> 0,
             daysWithRevenue |-> 0, dailyTotals |-> <<>>]

\* A day of 1..n whose cell makes processDayRevenue throw: the Array.from
\* callback that reaches it ends the computation of the summary.
CellThrows(data, n) ==
    \E day \in 1..n : IsThrown(processDayRevenue(Cell(data, day)))

\* The Array.from callback of getMonthSummaryForDate, for day = 1..dInMonth.
RECURSIVE MonthDays(_, _, _, _)
MonthDays(data, dInMonth, day, acc) ==
    IF day > dInMonth THEN acc
    ELSE LET r == processDayRevenue(Cell(data, day))
         IN  MonthDays(data, dInMonth, day + 1,
                 [monthlyTotal        |-> acc.monthlyTotal + r.total,
                  daysWithRevenue     |-> acc.daysWithRevenue
                                            + (IF r.total > 0 THEN 1 ELSE 0),
                  totalOvernightStays |-> acc.totalOvernightStays + r.overnightCount,
                  dailyTotals         |-> Append(acc.dailyTotals,
                                                 [day |-> day, total |-> r.total])])

\* Average dividing by one day too many.
AverageOverOneMoreDay(monthlyTotal, daysWithRevenue) ==
    IF daysWithRevenue > 0 THEN Divide(monthlyTotal, daysWithRevenue + 1)
    ELSE ZeroDouble

\* daysWithRevenue > 0 ? monthlyTotal / daysWithRevenue : 0
Average(monthlyTotal, daysWithRevenue) ==
    IF daysWithRevenue > 0 THEN Divide(monthlyTotal, daysWithRevenue)
    ELSE ZeroDouble

\* getMonthSummaryForDate building its key from m instead of m + 1: it reads
\* the bucket of the month before (no item when there is none).
getMonthSummaryOfMonthBefore(date, store) ==
    LET key  == <<date.y, date.m>>
        item == IF key \in DOMAIN store.data THEN store.data[key] ELSE NoItem
        data == IF item.kind = "json" THEN item.data ELSE EmptyData
    IN  IF item.kind = "corrupt" THEN Thrown
        ELSE IF CellThrows(data, DaysInMonth(date.y, date.m)) THEN Thrown
        ELSE LET t == MonthDays(data, DaysInMonth(date.y, date.m), 1, NoTotals)
             IN  [monthlyTotal        |-> t.monthlyTotal,
                  averageDailyRevenue |-> Average(t.monthlyTotal, t.daysWithRevenue),
                  totalOvernightStays |-> t.totalOvernightStays,
                  dailyTotals         |-> t.dailyTotals,
                  monthName           |-> MonthName(date)]

getMonthSummaryForDate(date, store) ==
    LET item == store.data[StorageKey(date.y, date.m)]
        data == IF item.kind = "json" THEN item.data ELSE EmptyData
    IN  IF item.kind = "corrupt" THEN Thrown
        ELSE IF CellThrows(data, DaysInMonth(date.y, date.m)) THEN Thrown
        ELSE LET t == MonthDays(data, DaysInMonth(date.y, date.m), 1, NoTotals)
             IN  [monthlyTotal        |-> t.monthlyTotal,
                  averageDailyRevenue |-> Average(t.monthlyTotal, t.daysWithRevenue),
                  totalOvernightStays |-> t.totalOvernightStays,
                  dailyTotals         |-> t.dailyTotals,
                  monthName           |-> MonthName(date)]

\* CurrentDays with a day counted once however many of its entries are over
\* the threshold (hasOvernight taken for overnightCount).
RECURSIVE CurrentDaysCountingNights(_, _, _, _)
CurrentDaysCountingNights(data, daysInMonth, day, acc) ==
    IF day > daysInMonth THEN acc
    ELSE LET r == processDayRevenue(Cell(data, day))
         IN  CurrentDaysCountingNights(data, daysInMonth, day + 1,
                 [monthlyTotal        |-> acc.monthlyTotal + r.total,
                  daysWithRevenue     |-> acc.daysWithRevenue
                                            + (IF r.total > 0 THEN 1 ELSE 0),
                  totalOvernightStays |-> acc.totalOvernightStays
                                            + (IF r.hasOvernight THEN 1 ELSE 0),
                  dailyTotals         |-> Append(acc.dailyTotals,
                                                 [day |-> day, total |-> r.total])])

\* The Array.from callback of the currentMonthSummary memo.
RECURSIVE CurrentDays(_, _, _, _)
CurrentDays(data, daysInMonth, day, acc) ==
    IF day > daysInMonth THEN acc
    ELSE LET r == processDayRevenue(Cell(data, day))
         IN  CurrentDays(data, daysInMonth, day + 1,
                 [monthlyTotal        |-> acc.monthlyTotal + r.total,
                  daysWithRevenue     |-> acc.daysWithRevenue
                                            + (IF r.total > 0 THEN 1 ELSE 0),
                  totalOvernightStays |-> acc.totalOvernightStays + r.overnightCount,
                  dailyTotals         |-> Append(acc.dailyTotals,
                                                 [day |-> day, total |-> r.total])])

\* ComputeCurrentMonthSummary with the last day of the month left out.
ComputeShortMonthSummary(data, date) ==
    IF CellThrows(data, DaysInMonth(date.y, date.m)) THEN Thrown
    ELSE LET t == CurrentDays(data, DaysInMonth(date.y, date.m) - 1, 1, NoTotals)
         IN  [monthlyTotal        |-> t.monthlyTotal,
              averageDailyRevenue |-> Average(t.monthlyTotal, t.daysWithRevenue),
              totalOvernightStays |-> t.totalOvernightStays,
              dailyTotals         |-> t.dailyTotals,
              monthName           |-> MonthName(date)]

ComputeCurrentMonthSummary(data, date) ==
    IF CellThrows(data, DaysInMonth(date.y, date.m)) THEN Thrown
    ELSE LET t == CurrentDays(data, DaysInMonth(date.y, date.m), 1, NoTotals)
         IN  [monthlyTotal        |-> t.monthlyTotal,
              averageDailyRevenue |-> Average(t.monthlyTotal, t.daysWithRevenue),
              totalOvernightStays |-> t.totalOvernightStays,
              dailyTotals         |-> t.dailyTotals,
              monthName           |-> MonthName(date)]

----------------------------------------------------------------------------
(* The earlier variant of the App (src/unnamed/part_000): the same figures *)
(* derived by four separate memos.                                         *)

AnalyzeScale == 1000

AnalyzeThreshold == 150000

ScanScale == 1000

\* The overnight scan taking an entry of exactly 150000 for a stay.
ScanThresholdInclusive == 150000 - 1

ScanThreshold == 150000

ZeroAnalysis == [total |-> 0, hasOvernight |-> FALSE]

\* The reduce callback of analyzeCellValue.
RECURSIVE AnalyzeReduce(_, _)
AnalyzeReduce(entries, acc) ==
    IF entries = <<>> THEN acc
    ELSE LET cleanedEntry == StripSeparators(Head(entries))
             v            == OrZero(parseInt(cleanedEntry)) * AnalyzeScale
         IN  AnalyzeReduce(Tail(entries),
                 [total        |-> acc.total + v,
                  hasOvernight |-> acc.hasOvernight \/ v > AnalyzeThreshold])

analyzeCellValue(value) ==
    IF value = NullCell THEN ZeroAnalysis
    ELSE IF ~IsString(value) THEN Thrown
    ELSE IF Trim(value) = <<>> THEN ZeroAnalysis
    ELSE AnalyzeReduce(FilterBoolean(Split(value, " ")), ZeroAnalysis)

\* The memo dailyTotals.
EarlierDailyTotals(data, daysInMonth) ==
    [i \in 1..daysInMonth |->
        [day |-> i, total |-> analyzeCellValue(Cell(data, i)).total]]

\* The memo monthlyTotal: dailyTotals.reduce((sum, day) => sum + day.total, 0)
RECURSIVE EarlierMonthlyTotal(_, _)
EarlierMonthlyTotal(totals, sum) ==
    IF totals = <<>> THEN sum
    ELSE EarlierMonthlyTotal(Tail(totals), sum + Head(totals).total)

\* The memo averageDailyRevenue.
EarlierAverageDailyRevenue(total, totals) ==
    LET totalDaysWithRevenue == Len(SelectSeq(totals, LAMBDA d : d.total > 0))
    IN  IF totalDaysWithRevenue > 0 THEN Divide(total, totalDaysWithRevenue)
        ELSE ZeroDouble

\* The inner loop of overnightSummary over the entries of one cell.
RECURSIVE ScanEntries(_, _)
ScanEntries(entries, count) ==
    IF entries = <<>> THEN count
    ELSE LET v == OrZero(parseInt(StripSeparators(Head(entries)))) * ScanScale
         IN  ScanEntries(Tail(entries),
                         IF v > ScanThreshold THEN count + 1 ELSE count)

\* The outer loop of overnightSummary: for (const day in revenueData), the
\* keys of the object in ascending order, whatever the month is.
RECURSIVE ScanDays(_, _, _)
ScanDays(data, days, count) ==
    IF days = {} THEN count
    ELSE LET day == CHOOSE d \in days : \A e \in days : d <= e
         IN  ScanDays(data, days \ {day},
                      ScanEntries(FilterBoolean(Split(data[day], " ")), count))

\* The memo overnightSummary; cellValue.split is a TypeError when the value
\* of a key is no string (null included: nothing guards it).
overnightSummary(data) ==
    IF \E day \in DOMAIN data : ~IsString(data[day]) THEN Thrown
    ELSE [total |-> ScanDays(data, DOMAIN data, 0)]

\* One render of the earlier App: its four memos.
EarlierRender(data, date) ==
    IF \E day \in 1..DaysInMonth(date.y, date.m) :
           IsThrown(analyzeCellValue(Cell(data, day)))
    THEN Thrown
    ELSE IF IsThrown(overnightSummary(data)) THEN Thrown
    ELSE LET totals == EarlierDailyTotals(data, DaysInMonth(date.y, date.m))
             total  == EarlierMonthlyTotal(totals, 0)
         IN  [dailyTotals         |-> totals,
              monthlyTotal        |-> total,
              averageDailyRevenue |-> EarlierAverageDailyRevenue(total, totals),
              overnightSummary    |-> overnightSummary(data)]

----------------------------------------------------------------------------
(* The view (the App component).                                           *)

Modes == {"daily", "monthly", "compare"}

\* value.replace(/\s+/g, ' ')
RECURSIVE CollapseWhiteSpace(_, _)
CollapseWhiteSpace(s, inRun) ==
    IF s = <<>> THEN <<>>
    ELSE IF IsWhiteSpace(Head(s))
         THEN (IF inRun THEN <<>> ELSE <<" ">>) \o CollapseWhiteSpace(Tail(s), TRUE)
         ELSE <<Head(s)>> \o CollapseWhiteSpace(Tail(s), FALSE)

\* The two replacements in the other order.
SanitizeCollapsingFirst(value) ==
    SelectSeq(CollapseWhiteSpace(value, FALSE),
              LAMBDA c : IsDigit(c) \/ IsWhiteSpace(c) \/ c \in {".", ","})

\* The first replacement alone.
SanitizeKeepingWhiteSpace(value) ==
    SelectSeq(value, LAMBDA c : IsDigit(c) \/ IsWhiteSpace(c) \/ c \in {".", ","})

\* value.replace(/[^0-9\s.,]/g, '').replace(/\s+/g, ' ')
Sanitize(value) ==
    CollapseWhiteSpace(
        SelectSeq(value, LAMBDA c : IsDigit(c) \/ IsWhiteSpace(c) \/ c \in {".", ","}),
        FALSE)

\* The first render and the load effect of a newly mounted App, for the
\* clock's date, and the storage left by earlier sessions.  The first render
\* computes the three memos (revenueData is still {}); when it returns, the
\* effect loads the bucket of the active month and the memo of the primary
\* summary is computed again.  A getMonthSummaryForDate that throws ends the
\* render: no effect runs and nothing is shown.  So does a memo of the
\* primary summary that throws on the data loaded.
Mounted(today, store) ==
    LET current == IF store.lastDate.kind = "iso" THEN store.lastDate.date ELSE today
        mode    == IF store.viewMode \in Modes THEN store.viewMode ELSE "daily"
        dateA   == today
        dateB   == PreviousMonth(today)
        sumA    == getMonthSummaryForDate(dateA, store)
        sumB    == getMonthSummaryForDate(dateB, store)
        threw   == IsThrown(sumA) \/ IsThrown(sumB)
        data    == IF threw THEN EmptyData
                   ELSE LoadRevenueData(store, current.y, current.m)
        summary == ComputeCurrentMonthSummary(data, current)
    IN  [currentDate         |-> current,
         viewMode            |-> mode,
         comparisonDateA     |-> dateA,
         comparisonDateB     |-> dateB,
         revenueData         |-> data,
         currentMonthSummary |-> summary,
         summaryA            |-> sumA,
         summaryB            |-> sumB,
         crashed             |-> threw \/ IsThrown(summary)]

\* String(day) and `${total}`: the decimal digits of an integer, after a
\* '-' when it is negative.
RECURSIVE Digits(_)
Digits(n) ==
    IF n < 10 THEN <<DigitChars[n + 1]>>
    ELSE Append(Digits(n \div 10), DigitChars[(n % 10) + 1])

NumberToString(n) == IF n < 0 THEN <<"-">> \o Digits(0 - n) ELSE Digits(n)

\* s.includes(sub)
Includes(s, sub) ==
    \E i \in 0..(Len(s) - Len(sub)) : SubSeq(s, i + 1, i + Len(sub)) = sub

\* The memo filteredDailyTotals: a function of the primary summary, the
\* search term and the raw data, computed again whenever one of them changes.
filteredDailyTotals ==
    IF Trim(searchTerm) = <<>> THEN currentMonthSummary.dailyTotals
    ELSE SelectSeq(currentMonthSummary.dailyTotals,
                   LAMBDA e : \/ Includes(NumberToString(e.day), searchTerm)
                              \/ Includes(Cell(revenueData, e.day), searchTerm))

\* rawInput.replace(/"/g, '""')
RECURSIVE EscapeQuotes(_)
EscapeQuotes(s) ==
    IF s = <<>> THEN <<>>
    ELSE (IF Head(s) = "\"" THEN <<"\"", "\"">> ELSE <<Head(s)>>)
             \o EscapeQuotes(Tail(s))

\* The header line of the file (its letters without their diacritics).
CsvHeader == "Ngay,Chi tiet doanh thu,Tong ngay (VND)\n"

\* `${day},${escapedInput},${total}`
CsvRow(e, data) ==
    NumberToString(e.day) \o <<",">>
        \o <<"\"">> \o EscapeQuotes(Cell(data, e.day)) \o <<"\"">>
        \o <<",">> \o NumberToString(e.total)

\* rows.join("\n")
RECURSIVE JoinRows(_)
JoinRows(rows) ==
    IF rows = <<>> THEN <<>>
    ELSE IF Len(rows) = 1 THEN rows[1]
    ELSE rows[1] \o <<"\n">> \o JoinRows(Tail(rows))

\* The export writing the rows the table shows under the search filter.
ExportedFilteredTotals == filteredDailyTotals

\* The days handleExport writes a row for.
ExportedTotals == currentMonthSummary.dailyTotals

\* csvContent = header + rows: the header, and the text that follows it.
CsvContent(dailyTotals, data) ==
    [header |-> CsvHeader,
     rows   |-> JoinRows([i \in 1..Len(dailyTotals) |-> CsvRow(dailyTotals[i], data)])]

NoFile == [none |-> TRUE]

----------------------------------------------------------------------------
(* Bounds and inputs.                                                      *)

\* Tokens of the raw strings handed to the Entry Parser.
MaxTokens == 2

\* Handlers run in one behaviour of the view.
MaxSteps == 3

Tokens ==
    { <<"5", "0">>, <<"1", "5", "0">>, <<"1", "5", "1">>, <<"2", "0", "0">>,
      <<"1", ".", "0", "0", "0", ",", "5", "0">>, <<"a", "b", "c">>,
      <<"1", "2", "a", "b", "c">>, <<"-", "5">>, <<".">> }

Separators == { <<" ">>, <<" ", " ">>, <<"\t">>, <<" ", "\n">> }

Margins == { <<>>, <<" ">>, <<"\t">> }

RECURSIVE Join(_, _)
Join(ts, ss) ==
    IF ts = <<>> THEN <<>>
    ELSE IF Len(ts) = 1 THEN ts[1]
    ELSE ts[1] \o ss[1] \o Join(Tail(ts), Tail(ss))

\* s is made of at most MaxTokens tokens, a separator between two of them,
\* and a margin at each end.
IsRawInput(s) ==
    \E n \in 0..MaxTokens :
        \E lead \in Margins, trail \in Margins, ts \in [1..n -> Tokens],
           ss \in [1..(IF n = 0 THEN 0 ELSE n - 1) -> Separators] :
            s = lead \o Join(ts, ss) \o trail

\* The dates the clock may show when the App is mounted.
Todays == { [y |-> 2024, m |-> 2, d |-> 31], [y |-> 2024, m |-> 0, d |-> 15],
            [y |-> 2024, m |-> 4, d |-> 15] }

\* The months picked in the month inputs.
MonthInputs == { [y |-> 2024, m |-> 1], [y |-> 2024, m |-> 2], [y |-> 2024, m |-> 3] }

StorageKeys ==
    { StorageKey(d.y, d.m) : d \in Todays \cup MonthInputs }
        \cup { StorageKey(PreviousMonth(d).y, PreviousMonth(d).m) : d \in Todays }

\* The days whose cell is edited, and what is typed or pasted into it.
EditDays == { 1, 31 }

TypedValues ==
    { <<>>, <<"2", "0", "0">>,
      <<"5", "0", "\t", " ", "2", "0", "0", "-", "a">> }

\* What earlier sessions may have left in the bucket of March 2024.
WeekOfRevenue ==
    [d \in 1..7 |-> IF d = 1 THEN <<"3">> ELSE <<"2">>]

Leftover ==
    [d \in {1, 2, 3, 31} |->
        IF d = 1 THEN <<"2", "0", "0", " ", "1", "5", "1">>
        ELSE IF d = 2 THEN <<"5", "0", "\t", "2", "0", "0">>
        ELSE IF d = 3 THEN <<"\"", "5", "0", "\"">>
        ELSE <<"-", "5">>]

\* A bucket written by the per-room variant: the value of a day is an
\* object room -> string.
RoomKeyed ==
    [d \in {1, 2} |-> IF d = 1 THEN <<"2", "0", "0">> ELSE RoomsCell]

StoredBuckets ==
    { NoItem, Corrupt, JsonText(WeekOfRevenue), JsonText(Leftover),
      JsonText(RoomKeyed) }

\* What is typed into the search box.
SearchTerms == { <<>>, <<"2">> }

StoredKey == <<2024, 3>>

InitialStores ==
    { [data     |-> [k \in StorageKeys |-> IF k = StoredKey THEN b ELSE NoItem],
       lastDate |-> last,
       viewMode |-> mode] :
      b \in StoredBuckets,
      last \in { NoItem, IsoText(DateOfMonthInput([y |-> 2024, m |-> 3])) },
      mode \in { NoMode, "compare" } }

----------------------------------------------------------------------------
(* The Entry Parser applied to one raw string.                             *)

NoResult == [none |-> TRUE]

\* No App is mounted.
ViewIdle ==
    /\ storage = <<>> /\ currentDate = <<>> /\ revenueData = <<>>
    /\ searchTerm = <<>>
    /\ viewMode = "daily" /\ comparisonDateA = <<>> /\ comparisonDateB = <<>>
    /\ currentMonthSummary = <<>> /\ summaryA = <<>> /\ summaryB = <<>>
    /\ csvContent = NoFile
    /\ crashed = FALSE /\ steps = 0

\* Neither the earlier variant, nor the chart, nor the per-room variant runs.
OthersIdle ==
    /\ typed = <<>> /\ earlierView = NoResult
    /\ props = <<>> /\ chartData = NoResult
    /\ roomData = <<>> /\ scanOrder = <<>> /\ roomSummary = NoResult

InitParse ==
    /\ IsRawInput(raw)
    /\ result = NoResult
    /\ ViewIdle
    /\ OthersIdle

Parse ==
    /\ result = NoResult
    /\ result' = processDayRevenue(raw)
    /\ UNCHANGED <<raw, viewVars, otherVars>>

NextParse == Parse

SpecParse == InitParse /\ [][NextParse]_vars

----------------------------------------------------------------------------
(* The two variants of the aggregator applied to one stored data set.      *)

\* The days the data set has an entry for: in every month, in the months of
\* 31 days only, and in no month.
VariantDays == { 1, 2, 31, 32 }

\* The values JSON.parse gives these days.
VariantCells ==
    { <<"2", "0", "0", " ", "1", "5", "1">>, <<"1", "5", "0">>,
      <<"5", "0", "\t", "2", "0", "0">>, <<"\t">>,
      NullCell, NumberCell, RoomsCell }

MaxCells == 3

VariantData ==
    UNION { [days -> VariantCells] :
              days \in { d \in SUBSET VariantDays : Cardinality(d) <= MaxCells } }

NoView ==
    /\ storage = <<>> /\ searchTerm = <<>> /\ viewMode = "daily"
    /\ comparisonDateA = <<>> /\ comparisonDateB = <<>>
    /\ summaryA = <<>> /\ summaryB = <<>>
    /\ csvContent = NoFile /\ crashed = FALSE /\ steps = 0

InitVariants ==
    /\ raw = <<>> /\ result = NoResult
    /\ NoView
    /\ typed = <<>>
    /\ props = <<>> /\ chartData = NoResult
    /\ roomData = <<>> /\ scanOrder = <<>> /\ roomSummary = NoResult
    /\ revenueData \in VariantData
    /\ currentDate \in { DateOfMonthInput(value) : value \in MonthInputs }
    /\ currentMonthSummary = NoResult
    /\ earlierView = NoResult

\* The memo currentMonthSummary of src/App.tsx computed on the data set.
RenderCurrent ==
    /\ currentMonthSummary = NoResult
    /\ currentMonthSummary' = ComputeCurrentMonthSummary(revenueData, currentDate)
    /\ UNCHANGED <<raw, result, storage, currentDate, revenueData, searchTerm,
                   viewMode, comparisonDateA, comparisonDateB, summaryA, summaryB,
                   csvContent, crashed, steps, otherVars>>

\* The memos of the earlier variant computed on the data set.
RenderEarlier ==
    /\ earlierView = NoResult
    /\ earlierView' = EarlierRender(revenueData, currentDate)
    /\ UNCHANGED <<parserVars, viewVars, typed, props, chartData, roomData,
                   scanOrder, roomSummary>>

NextVariants == RenderCurrent \/ RenderEarlier

SpecVariants == InitVariants /\ [][NextVariants]_vars

----------------------------------------------------------------------------
(* The view as a state machine: one action per handler, each followed by   *)
(* the render it causes (a memo is computed again when one of its          *)
(* dependencies changed) and by the effects of that render.                *)

Init ==
    /\ raw = <<>>
    /\ result = NoResult
    /\ OthersIdle
    /\ steps = 0
    /\ searchTerm = <<>>
    /\ csvContent = NoFile
    /\ \E today \in Todays, store \in InitialStores :
          \E v \in {Mounted(today, store)} :
              /\ storage = store
              /\ currentDate = v.currentDate
              /\ viewMode = v.viewMode
              /\ comparisonDateA = v.comparisonDateA
              /\ comparisonDateB = v.comparisonDateB
              /\ revenueData = v.revenueData
              /\ currentMonthSummary = v.currentMonthSummary
              /\ summaryA = v.summaryA
              /\ summaryB = v.summaryB
              /\ crashed = v.crashed

CanHandle == ~crashed /\ steps < MaxSteps

\* The year and the zero-based month the render derives from currentDate.
SameMonth(d1, d2) == d1.y = d2.y /\ d1.m = d2.m

\* handleDateChange, then the load effect ([year, month] changed) and the
\* memo of the primary summary.
handleDateChange(value) ==
    /\ CanHandle
    /\ ~SameMonth(value, currentDate)
    /\ LET newDate == DateOfMonthInput(value)
           data    == LoadRevenueData(storage, newDate.y, newDate.m)
       IN  /\ storage' = [storage EXCEPT !.lastDate = IsoText(newDate)]
           /\ currentDate' = newDate
           /\ revenueData' = data
           /\ \E summary \in {ComputeCurrentMonthSummary(data, newDate)} :
                  /\ currentMonthSummary' = summary
                  /\ crashed' = IsThrown(summary)
    /\ steps' = steps + 1
    /\ UNCHANGED <<searchTerm, viewMode, comparisonDateA, comparisonDateB,
                   summaryA, summaryB, csvContent, parserVars, otherVars>>

\* handleRevenueChange from the table of the daily view, then the memo of
\* the primary summary (revenueData changed).  summaryA and summaryB depend
\* on comparisonDateA and comparisonDateB alone: they are not computed again.
handleRevenueChange(day, value) ==
    /\ CanHandle
    /\ viewMode = "daily"
    /\ day \in 1..DaysInMonth(currentDate.y, currentDate.m)
    /\ LET sanitizedValue == Sanitize(value)
           storageKey     == StorageKey(currentDate.y, currentDate.m)
       IN  \E updatedData \in {WithDay(revenueData, day, sanitizedValue)} :
               /\ storage' = [storage EXCEPT !.data[storageKey] = JsonText(updatedData)]
               /\ revenueData' = updatedData
               /\ \E summary \in {ComputeCurrentMonthSummary(updatedData, currentDate)} :
                      /\ currentMonthSummary' = summary
                      /\ crashed' = IsThrown(summary)
    /\ steps' = steps + 1
    /\ UNCHANGED <<currentDate, searchTerm, viewMode, comparisonDateA,
                   comparisonDateB, summaryA, summaryB, csvContent, parserVars,
                   otherVars>>

handleViewModeChange(mode) ==
    /\ CanHandle
    /\ mode # viewMode
    /\ storage' = [storage EXCEPT !.viewMode = mode]
    /\ viewMode' = mode
    /\ steps' = steps + 1
    /\ UNCHANGED <<currentDate, revenueData, searchTerm, comparisonDateA,
                   comparisonDateB, currentMonthSummary, summaryA, summaryB,
                   csvContent, crashed, parserVars, otherVars>>

\* handleComparisonDateChange('A', value) from the compare view, then the
\* memo summaryA (comparisonDateA changed), which reads the storage.
handleComparisonDateChangeA(value) ==
    /\ CanHandle
    /\ viewMode = "compare"
    /\ ~SameMonth(value, comparisonDateA)
    /\ LET newDate == DateOfMonthInput(value)
       IN  /\ comparisonDateA' = newDate
           /\ \E summary \in {getMonthSummaryForDate(newDate, storage)} :
                  /\ summaryA' = summary
                  /\ crashed' = IsThrown(summary)
    /\ steps' = steps + 1
    /\ UNCHANGED <<storage, currentDate, revenueData, searchTerm, viewMode,
                   comparisonDateB, currentMonthSummary, summaryB, csvContent,
                   parserVars, otherVars>>

handleComparisonDateChangeB(value) ==
    /\ CanHandle
    /\ viewMode = "compare"
    /\ ~SameMonth(value, comparisonDateB)
    /\ LET newDate == DateOfMonthInput(value)
       IN  /\ comparisonDateB' = newDate
           /\ \E summary \in {getMonthSummaryForDate(newDate, storage)} :
                  /\ summaryB' = summary
                  /\ crashed' = IsThrown(summary)
    /\ steps' = steps + 1
    /\ UNCHANGED <<storage, currentDate, revenueData, searchTerm, viewMode,
                   comparisonDateA, currentMonthSummary, summaryA, csvContent,
                   parserVars, otherVars>>

\* setSearchTerm(e.target.value) from the search box of the daily view.
setSearchTerm(value) ==
    /\ CanHandle
    /\ viewMode = "daily"
    /\ value # searchTerm
    /\ searchTerm' = value
    /\ steps' = steps + 1
    /\ UNCHANGED <<storage, currentDate, revenueData, viewMode, comparisonDateA,
                   comparisonDateB, currentMonthSummary, summaryA, summaryB,
                   csvContent, crashed, parserVars, otherVars>>

\* handleExport from the Export button of the daily view.
handleExport ==
    /\ CanHandle
    /\ viewMode = "daily"
    /\ csvContent' = CsvContent(ExportedTotals, revenueData)
    /\ steps' = steps + 1
    /\ UNCHANGED <<storage, currentDate, revenueData, searchTerm, viewMode,
                   comparisonDateA, comparisonDateB, currentMonthSummary,
                   summaryA, summaryB, crashed, parserVars, otherVars>>

Next ==
    \/ \E value \in MonthInputs : handleDateChange(value)
    \/ \E day \in EditDays, value \in TypedValues : handleRevenueChange(day, value)
    \/ \E mode \in Modes : handleViewModeChange(mode)
    \/ \E value \in MonthInputs : handleComparisonDateChangeA(value)
    \/ \E value \in MonthInputs : handleComparisonDateChangeB(value)
    \/ \E value \in SearchTerms : setSearchTerm(value)
    \/ handleExport

Spec == Init /\ [][Next]_vars

----------------------------------------------------------------------------
(* The table of the daily view, filled in from an empty storage: the text  *)
(* of a cell's input changes (typed or pasted) and the change event hands  *)
(* it to handleRevenueChange.                                              *)

\* What the input of a cell may hold when its change event is dispatched.
TableValues ==
    { <<>>, <<"2", "0", "0">>,
      <<"5", "0", "\t", " ", "2", "0", "0", "-", "a">>,
      <<"a", "5", " ", "b", " ", "6">>,
      <<" ", "5", "0", " ", " ", "1", "5", "1", "\n">>,
      <<"1", ".", "0", "0", "0", ",", "5", " ", "x">>,
      <<"-", "5">>, <<"a", "b", "c">>, <<"\t">>,
      <<"5", "0", "\t", "2", "0", "0">>,
      <<"1", "2", "a", "b", "c", " ", "1", "-", "3">>,
      <<".", " ", ",">> }

EmptyStore ==
    [data     |-> [k \in StorageKeys |-> NoItem],
     lastDate |-> NoItem,
     viewMode |-> NoMode]

InitTable ==
    /\ raw = <<>>
    /\ result = NoResult
    /\ typed = <<>>
    /\ earlierView = NoResult
    /\ props = <<>> /\ chartData = NoResult
    /\ roomData = <<>> /\ scanOrder = <<>> /\ roomSummary = NoResult
    /\ steps = 0
    /\ searchTerm = <<>>
    /\ csvContent = NoFile
    /\ storage = EmptyStore
    /\ \E today \in Todays :
          \E v \in {Mounted(today, EmptyStore)} :
              /\ currentDate = v.currentDate
              /\ viewMode = v.viewMode
              /\ comparisonDateA = v.comparisonDateA
              /\ comparisonDateB = v.comparisonDateB
              /\ revenueData = v.revenueData
              /\ currentMonthSummary = v.currentMonthSummary
              /\ summaryA = v.summaryA
              /\ summaryB = v.summaryB
              /\ crashed = v.crashed

\* e.target.value of the input of a cell.
typeIntoCell(value) ==
    /\ CanHandle
    /\ value # typed
    /\ typed' = value
    /\ UNCHANGED <<parserVars, viewVars, earlierView, props, chartData,
                   roomData, scanOrder, roomSummary>>

\* onChange={e => handleRevenueChange(day, e.target.value)}
changeCell(day) == handleRevenueChange(day, typed)

NextTable ==
    \/ \E value \in TableValues : typeIntoCell(value)
    \/ \E day \in EditDays : changeCell(day)

SpecTable == InitTable /\ [][NextTable]_vars

----------------------------------------------------------------------------
(* The chart of the compare view (ComparisonChart).  An object is a        *)
(* function from its keys to their values; a key given twice in an object  *)
(* literal keeps the value given last.                                     *)

MinRows == 28

Max(a, b) == IF a >= b THEN a ELSE b

EmptyObject == [k \in {} |-> 0]

\* One more key of an object literal.
WithKey(object, key, value) ==
    [k \in (DOMAIN object) \cup {key} |-> IF k = key THEN value ELSE object[k]]

\* data.find(d => d.day === day)?.total ?? 0
TotalOfDay(data, day) ==
    IF \E i \in 1..Len(data) : data[i].day = day
    THEN data[CHOOSE i \in 1..Len(data) :
                  /\ data[i].day = day
                  /\ \A j \in 1..(i - 1) : data[j].day # day].total
    ELSE 0

\* `Ngày ${day}`, written without the accent.
DayLabel(day) == <<"N", "g", "a", "y", " ">> \o NumberToString(day)

\* { name: `Ngày ${day}`, [nameA]: totalA, [nameB]: totalB }
ChartRow(day, dataA, dataB, nameA, nameB) ==
    WithKey(WithKey(WithKey(EmptyObject, "name", DayLabel(day)),
                    nameA, TotalOfDay(dataA, day)),
            nameB, TotalOfDay(dataB, day))

\* Array.from({ length: maxDays }, (_, i) => ...)
ChartData(p) ==
    [i \in 1..Max(Max(Len(p.dataA), Len(p.dataB)), MinRows) |->
        ChartRow(i, p.dataA, p.dataB, p.nameA, p.nameB)]

\* The daily totals of a month of n days with revenue on some days.
TotalsOfMonth(n, busy, total) ==
    [i \in 1..n |-> [day |-> i, total |-> IF i \in busy THEN total ELSE 0]]

\* The daily totals handed to the chart: those of months of 28 to 31 days,
\* and sequences that are no month's.
ChartTotals ==
    { TotalsOfMonth(28, {}, 0), TotalsOfMonth(29, {1, 29}, 200000),
      TotalsOfMonth(30, {1}, 50000), TotalsOfMonth(31, {2, 31}, 1000),
      <<>>, <<[day |-> 5, total |-> 1000]>>,
      <<[day |-> 1, total |-> 1000], [day |-> 1, total |-> 2000]>>,
      <<[day |-> 40, total |-> 7000]>> }

\* The names of the two periods: monthName of their summaries.
ChartNames == { "thang 2 2024", "thang 3 2024" }

ChartProps ==
    [dataA : ChartTotals, dataB : ChartTotals, nameA : ChartNames,
     nameB : ChartNames]

InitChart ==
    /\ raw = <<>> /\ result = NoResult
    /\ ViewIdle
    /\ typed = <<>> /\ earlierView = NoResult
    /\ roomData = <<>> /\ scanOrder = <<>> /\ roomSummary = NoResult
    /\ props \in ChartProps
    /\ chartData = NoResult

\* A render of the component with the props handed to it.
ComparisonChart ==
    /\ chartData = NoResult
    /\ chartData' = ChartData(props)
    /\ UNCHANGED <<parserVars, viewVars, typed, earlierView, props, roomData,
                   scanOrder, roomSummary>>

NextChart == ComparisonChart

SpecChart == InitChart /\ [][NextChart]_vars

----------------------------------------------------------------------------
(* The per-room variant of the aggregator, as the specification describes  *)
(* it (4.2): the raw data of a day are a mapping room -> RawCell           *)
(* (src/types.ts); the cells are scanned one after the other, each is      *)
(* handed to the Entry Parser, its total is added to the total of its day  *)
(* and its overnight count to the tally of its room.                       *)

Rooms == { "101", "102" }

RoomDays == { 1, 2 }

\* What a cell of a room holds, as the handler of the table stores it.
RoomCells ==
    { <<"2", "0", "0">>, <<"1", "5", "0">>,
      <<"5", "0", " ", "1", "5", "1", " ", "2", "0", "0">>,
      <<" ", "1", ".", "0", "0", "0", ",", "5", " ">> }

\* The month summarised.
RoomsMonth == [y |-> 2024, m |-> 1]

\* The cells are <<day, room>>; the raw data with the cells given.
RoomsOfDay(cells, day) == { room \in Rooms : <<day, room>> \in DOMAIN cells }

RoomDataOf(cells) ==
    [day \in { d \in RoomDays : RoomsOfDay(cells, d) # {} } |->
        [room \in RoomsOfDay(cells, day) |-> cells[<<day, room>>]]]

\* The orders in which the cells of a set may be scanned.
Orders(S) ==
    { o \in [1..Cardinality(S) -> S] :
        \A i, j \in 1..Cardinality(S) : i # j => o[i] # o[j] }

ZeroRoomsSummary ==
    [totals |-> [day \in {} |-> 0], tally |-> [room \in {} |-> 0]]

Plus(f, key, n) ==
    [k \in (DOMAIN f) \cup {key} |->
        IF k = key THEN (IF key \in DOMAIN f THEN f[key] ELSE 0) + n ELSE f[k]]

\* The tally keeping the count of the last cell of a room.
AddCellOfLastDay(acc, day, room, cell) ==
    [totals |-> Plus(acc.totals, day, cell.total),
     tally  |-> [k \in (DOMAIN acc.tally) \cup {room} |->
                    IF k = room THEN cell.overnightCount ELSE acc.tally[k]]]

\* One cell scanned: both accumulations are additions.
AddCell(acc, day, room, cell) ==
    [totals |-> Plus(acc.totals, day, cell.total),
     tally  |-> Plus(acc.tally, room, cell.overnightCount)]

RECURSIVE ScanCells(_, _, _)
ScanCells(data, order, acc) ==
    IF order = <<>> THEN acc
    ELSE \* Head(order) is <<day, room>>
         ScanCells(data, Tail(order),
                   AddCell(acc, Head(order)[1], Head(order)[2],
                           processDayRevenue(data[Head(order)[1]][Head(order)[2]])))

\* summarize for per-room data: the day totals of the month and the tally.
summarizeRooms(data, order, daysInMonth) ==
    \* the scan is bound once
    CHOOSE summary \in
        { [dailyTotals |->
               [day \in 1..daysInMonth |->
                   [day   |-> day,
                    total |-> IF day \in DOMAIN acc.totals
                              THEN acc.totals[day] ELSE 0]],
           tally |-> acc.tally] :
          acc \in {ScanCells(data, order, ZeroRoomsSummary)} } : TRUE

InitRooms ==
    /\ raw = <<>> /\ result = NoResult
    /\ ViewIdle
    /\ typed = <<>> /\ earlierView = NoResult
    /\ props = <<>> /\ chartData = NoResult
    /\ \E present \in SUBSET (RoomDays \X Rooms) :
          \E cells \in [present -> RoomCells] :
              /\ roomData = RoomDataOf(cells)
              /\ scanOrder \in Orders(present)
    /\ roomSummary = NoResult

SummarizeRooms ==
    /\ roomSummary = NoResult
    /\ roomSummary' = summarizeRooms(roomData, scanOrder,
                                     DaysInMonth(RoomsMonth.y, RoomsMonth.m))
    /\ UNCHANGED <<parserVars, viewVars, typed, earlierView, props, chartData,
                   roomData, scanOrder>>

NextRooms == SummarizeRooms

SpecRooms == InitRooms /\ [][NextRooms]_vars

----------------------------------------------------------------------------
(* What the specification says of the Entry Parser.                        *)

\* The tokens of a raw string: the pieces between runs of white space.
RECURSIVE WhiteSpaceTokensFrom(_, _, _)
WhiteSpaceTokensFrom(s, cur, acc) ==
    IF s = <<>> THEN (IF cur = <<>> THEN acc ELSE Append(acc, cur))
    ELSE IF IsWhiteSpace(Head(s))
         THEN WhiteSpaceTokensFrom(Tail(s), <<>>,
                                   IF cur = <<>> THEN acc ELSE Append(acc, cur))
         ELSE WhiteSpaceTokensFrom(Tail(s), Append(cur, Head(s)), acc)

WhiteSpaceTokens(s) == WhiteSpaceTokensFrom(s, <<>>, <<>>)

\* A token that is a non-negative integer once '.' and ',' are removed.
IsNumericToken(t) ==
    LET digits == StripSeparators(t)
    IN  digits # <<>> /\ \A i \in 1..Len(digits) : IsDigit(digits[i])

RECURSIVE DecimalValue(_, _)
DecimalValue(digits, n) ==
    IF digits = <<>> THEN n
    ELSE DecimalValue(Tail(digits), 10 * n + DigitVal(Head(digits)))

\* The amount a token stands for: its integer times 1000, and nothing when
\* it is no non-negative integer.
TokenAmount(t) ==
    IF IsNumericToken(t) THEN DecimalValue(StripSeparators(t), 0) * 1000 ELSE 0

RECURSIVE SumOfAmounts(_)
SumOfAmounts(ts) ==
    IF ts = <<>> THEN 0 ELSE TokenAmount(Head(ts)) + SumOfAmounts(Tail(ts))

OvernightTokens(ts) == { i \in 1..Len(ts) : TokenAmount(ts[i]) > 150000 }

AllNumeric(ts) == \A i \in 1..Len(ts) : IsNumericToken(ts[i])

OnlySpaces(s) == \A i \in 1..Len(s) : IsWhiteSpace(s[i]) => s[i] = " "

Parsed == result # NoResult

\* C1: for every raw string total is 1000 times the sum of the integers its
\* tokens form once '.' and ',' are removed, and an empty or blank string
\* gives {0, false, 0}.  Stated for the strings whose tokens are all such
\* integers.
C1_TotalIsScaledSum ==
    Parsed =>
        /\ AllNumeric(WhiteSpaceTokens(raw)) =>
               result.total = SumOfAmounts(WhiteSpaceTokens(raw))
        /\ WhiteSpaceTokens(raw) = <<>> => result = ZeroResult

\* C2: the raw string is split on runs of any white space: two numeric
\* tokens separated by such a run each add their own amount to total and
\* are each classified for overnight on their own.
C2_SplitsOnWhiteSpaceRuns ==
    LET ts == WhiteSpaceTokens(raw)
    IN  (Parsed /\ Len(ts) = 2 /\ AllNumeric(ts)) =>
            /\ result.total = TokenAmount(ts[1]) + TokenAmount(ts[2])
            /\ result.overnightCount =
                   (IF TokenAmount(ts[1]) > 150000 THEN 1 ELSE 0)
                   + (IF TokenAmount(ts[2]) > 150000 THEN 1 ELSE 0)

\* C3: overnightCount is the number of tokens whose amount is strictly above
\* 150000 (every one of them, and none worth exactly 150000), and
\* hasOvernight is true exactly when overnightCount > 0.
C3_OvernightCount ==
    LET ts == WhiteSpaceTokens(raw)
    IN  (Parsed /\ AllNumeric(ts)) =>
            /\ result.overnightCount = Cardinality(OvernightTokens(ts))
            /\ result.hasOvernight <=> result.overnightCount > 0

\* C4: whatever characters the raw string is made of, total >= 0 and
\* overnightCount >= 0.
C4_NeverNegative ==
    Parsed => result.total >= 0 /\ result.overnightCount >= 0

\* C5: a token that is no non-negative integer once '.' and ',' are removed
\* adds 0 to total and is never counted as overnight, and the other tokens
\* of the string count as usual.  Stated for the strings whose white space
\* is single-space characters only.
C5_InvalidTokenIsZero ==
    LET ts == WhiteSpaceTokens(raw)
    IN  (Parsed /\ OnlySpaces(raw)) =>
            /\ result.total = SumOfAmounts(ts)
            /\ result.overnightCount = Cardinality(OvernightTokens(ts))

----------------------------------------------------------------------------
(* What the specification says of the month summaries.                     *)

RECURSIVE SumTotals(_)
SumTotals(dailyTotals) ==
    IF dailyTotals = <<>> THEN 0
    ELSE Head(dailyTotals).total + SumTotals(Tail(dailyTotals))

\* The Entry Parser's overnightCount summed over the cells of days 1..n.
RECURSIVE OvernightOfDays(_, _)
OvernightOfDays(data, n) ==
    IF n = 0 THEN 0
    ELSE processDayRevenue(Cell(data, n)).overnightCount + OvernightOfDays(data, n - 1)

DaysOf(date) == DaysInMonth(date.y, date.m)

\* The raw data a summary of the month of date is computed from, given the
\* storage: the bucket of that month, and no data when it holds no item.
DataOf(store, date) == LoadRevenueData(store, date.y, date.m)

DaysWithRevenue(summary) ==
    Cardinality({ i \in 1..Len(summary.dailyTotals) : summary.dailyTotals[i].total > 0 })

TotalsAddUp(summary) == summary.monthlyTotal = SumTotals(summary.dailyTotals)

OvernightAddsUp(summary, data, date) ==
    summary.totalOvernightStays = OvernightOfDays(data, DaysOf(date))

\* No handler has run yet: the summaries are those of the first render.
JustMounted == steps = 0

\* C6, when the view is mounted: the comparison summaries count the
\* overnight stays of the cells of days 1..daysInMonth of their buckets.
C6_AtMount ==
    (JustMounted /\ ~crashed) =>
        /\ OvernightAddsUp(summaryA, DataOf(storage, comparisonDateA), comparisonDateA)
        /\ OvernightAddsUp(summaryB, DataOf(storage, comparisonDateB), comparisonDateB)

\* C6, in every state: monthlyTotal is the sum of the daily totals in the
\* three summaries, and the primary summary counts the overnight stays of
\* the cells of days 1..daysInMonth of the raw data of the view.
C6_InEveryState ==
    ~crashed =>
        /\ TotalsAddUp(currentMonthSummary)
        /\ TotalsAddUp(summaryA)
        /\ TotalsAddUp(summaryB)
        /\ OvernightAddsUp(currentMonthSummary, revenueData, currentDate)

\* C6, whenever a comparison summary is computed for a newly picked period.
C6_WhenComputed ==
    /\ (comparisonDateA' # comparisonDateA /\ ~crashed') =>
           OvernightAddsUp(summaryA', DataOf(storage', comparisonDateA'), comparisonDateA')
    /\ (comparisonDateB' # comparisonDateB /\ ~crashed') =>
           OvernightAddsUp(summaryB', DataOf(storage', comparisonDateB'), comparisonDateB')

HasShape(summary, date) ==
    /\ Len(summary.dailyTotals) = DaysOf(date)
    /\ \A i \in 1..Len(summary.dailyTotals) : summary.dailyTotals[i].day = i

\* Entry i of dailyTotals is the Entry Parser's total of the raw string of
\* day i, the empty string when the data have no such day.
HasTotalsOf(summary, data) ==
    \A i \in 1..Len(summary.dailyTotals) :
        /\ summary.dailyTotals[i].total =
               processDayRevenue(IF i \in DOMAIN data THEN data[i] ELSE <<>>).total
        /\ i \notin DOMAIN data => summary.dailyTotals[i].total = 0

AllEmpty(data, date) ==
    \A d \in 1..DaysOf(date) : d \in DOMAIN data => data[d] = <<>>

IsZeroSummary(summary, date) ==
    /\ summary.monthlyTotal = 0
    /\ summary.averageDailyRevenue = ZeroDouble
    /\ summary.totalOvernightStays = 0
    /\ Len(summary.dailyTotals) = DaysOf(date)
    /\ \A i \in 1..Len(summary.dailyTotals) : summary.dailyTotals[i].total = 0

IsSummaryOf(summary, data, date) ==
    /\ HasShape(summary, date)
    /\ HasTotalsOf(summary, data)
    /\ AllEmpty(data, date) => IsZeroSummary(summary, date)

C7_AtMount ==
    (JustMounted /\ ~crashed) =>
        /\ IsSummaryOf(summaryA, DataOf(storage, comparisonDateA), comparisonDateA)
        /\ IsSummaryOf(summaryB, DataOf(storage, comparisonDateB), comparisonDateB)

C7_InEveryState ==
    ~crashed =>
        /\ IsSummaryOf(currentMonthSummary, revenueData, currentDate)
        /\ HasShape(summaryA, comparisonDateA)
        /\ HasShape(summaryB, comparisonDateB)

C7_WhenComputed ==
    /\ (comparisonDateA' # comparisonDateA /\ ~crashed') =>
           IsSummaryOf(summaryA', DataOf(storage', comparisonDateA'), comparisonDateA')
    /\ (comparisonDateB' # comparisonDateB /\ ~crashed') =>
           IsSummaryOf(summaryB', DataOf(storage', comparisonDateB'), comparisonDateB')

\* C7: dailyTotals has exactly daysInMonth entries in ascending day order,
\* entry i (from 0) has day i + 1 and the Entry Parser's total of that day's
\* raw string, a day absent from the raw data counting as the empty string;
\* all-empty data give monthlyTotal 0, averageDailyRevenue 0,
\* totalOvernightStays 0 and daysInMonth entries of total 0 (30 of them in a
\* month of 30 days).
C7_DailyTotals ==
    [](C7_AtMount /\ C7_InEveryState) /\ [][C7_WhenComputed]_vars

\* A month of 30 days is shown with no data at all, next to a comparison
\* summary of a month that has data for some days and none for the others.
C7_Witness ==
    /\ ~crashed
    /\ DaysOf(currentDate) = 30
    /\ revenueData = EmptyData
    /\ Len(currentMonthSummary.dailyTotals) = 30
    /\ summaryA.monthlyTotal > 0
    /\ \E d \in 1..DaysOf(comparisonDateA) :
           d \notin DOMAIN DataOf(storage, comparisonDateA)

\* The summaries the view holds.
Summaries == { currentMonthSummary, summaryA, summaryB }

\* averageDailyRevenue * daysWithRevenue == monthlyTotal, as JavaScript
\* evaluates it.
TimesBackIsTotal(summary) ==
    Times(summary.averageDailyRevenue, DaysWithRevenue(summary))
        = DoubleOfInt(summary.monthlyTotal)

\* C8 as stated: averageDailyRevenue * daysWithRevenue == monthlyTotal when
\* daysWithRevenue > 0, and averageDailyRevenue is 0 when it is 0.
C8_TimesBackIsTotal ==
    ~crashed =>
        \A summary \in Summaries :
            IF DaysWithRevenue(summary) > 0 THEN TimesBackIsTotal(summary)
            ELSE summary.averageDailyRevenue = ZeroDouble

\* The fraction bits of a double of integer part int and fraction frac: what
\* is left of the 53 significant bits.
FractionLength(x) ==
    IF x.int > 0 THEN MantissaBits - BitLength(x.int)
    ELSE FirstOne(x.frac) + MantissaBits - 1

PadTo(bits, n) == bits \o [i \in 1..(n - Len(bits)) |-> 0]

Complement(bits) == [i \in 1..Len(bits) |-> 1 - bits[i]]

\* The number the bits spell, when it is below 64; 64 otherwise.
RECURSIVE LowValue(_, _)
LowValue(bits, n) ==
    IF bits = <<>> THEN n
    ELSE IF 2 * n + Head(bits) >= 64 THEN 64
    ELSE LowValue(Tail(bits), 2 * n + Head(bits))

\* In units of the last place of x: the distance from the exact product
\* x * b to the integer a (64 when it is 64 units or more).
UnitsOff(x, a, b) ==
    LET p    == ExactTimes(x, b)
        bits == PadTo(p.frac, FractionLength(x))
    IN  IF p.int = a THEN LowValue(bits, 0)
        ELSE IF p.int = a - 1 THEN
            (IF LowValue(Complement(bits), 0) >= 63 THEN 64
             ELSE LowValue(Complement(bits), 0) + 1)
        ELSE 64

\* x is a double nearest to a / b: the exact product x * b is within b
\* half units of the last place of x from a.
IsNearestDouble(x, a, b) ==
    IF a = 0 THEN x = ZeroDouble
    ELSE /\ x.neg = (a < 0)
         /\ 2 * UnitsOff(x, IF a < 0 THEN 0 - a ELSE a, b) <= b

\* C8 as amended: averageDailyRevenue is the double nearest to
\* monthlyTotal / daysWithRevenue when daysWithRevenue > 0 (so that
\* averageDailyRevenue * daysWithRevenue == monthlyTotal whenever
\* daysWithRevenue divides monthlyTotal), and exactly 0 when it is 0.
C8_AverageIsNearestDouble ==
    ~crashed =>
        \A summary \in Summaries :
            LET n == DaysWithRevenue(summary)
            IN  IF n > 0
                THEN /\ IsNearestDouble(summary.averageDailyRevenue,
                                        summary.monthlyTotal, n)
                     /\ summary.monthlyTotal % n = 0 => TimesBackIsTotal(summary)
                ELSE summary.averageDailyRevenue = ZeroDouble

\* Seven days have revenue, 15000 in all: 15000 / 7 is no double, and the
\* double nearest to it times 7 is not 15000.
C8_Witness ==
    /\ ~crashed
    /\ DaysWithRevenue(currentMonthSummary) = 7
    /\ currentMonthSummary.monthlyTotal = 15000
    /\ ~TimesBackIsTotal(currentMonthSummary)

----------------------------------------------------------------------------
(* What the specification says of the view.                                *)

\* C9: after any sequence of cell edits, month switches and comparison
\* period selections, each summary the view holds (primary, comparison A,
\* comparison B) is the summary computed from the raw data now stored for
\* its period.
C9_SummariesFollowStorage ==
    ~crashed =>
        /\ currentMonthSummary =
               ComputeCurrentMonthSummary(DataOf(storage, currentDate), currentDate)
        /\ summaryA = getMonthSummaryForDate(comparisonDateA, storage)
        /\ summaryB = getMonthSummaryForDate(comparisonDateB, storage)

BucketIsCorrupt(date) ==
    storage.data[StorageKey(date.y, date.m)].kind = "corrupt"

\* C10: whenever the text of a month's bucket cannot be parsed, each
\* consumer of that bucket (the primary load, the comparison summaries A
\* and B) takes an empty data set and shows the all-zero summary; the
\* failure is never propagated.
C10_CorruptBucketReadsEmpty ==
    /\ ~crashed
    /\ BucketIsCorrupt(currentDate) =>
           revenueData = EmptyData /\ IsZeroSummary(currentMonthSummary, currentDate)
    /\ BucketIsCorrupt(comparisonDateA) => IsZeroSummary(summaryA, comparisonDateA)
    /\ BucketIsCorrupt(comparisonDateB) => IsZeroSummary(summaryB, comparisonDateB)

----------------------------------------------------------------------------
(* What the specification says of malformed data and of the two variants.  *)

\* The data set with every entry that is no string read as the empty string.
WellFormed(data) ==
    [d \in DOMAIN data |-> IF IsString(data[d]) THEN data[d] ELSE <<>>]

CurrentRendered == currentMonthSummary # NoResult

EarlierRendered == earlierView # NoResult

\* C11: summarising never raises: for every stored data set, a day entry
\* that is absent or malformed (a value that is no string, such as a number
\* or a room-keyed object) contributes zero to every figure of the summary
\* and no exception is thrown, in the single-pass aggregator and in the
\* earlier variant's separate overnight scan.
C11_MalformedCountsAsZero ==
    /\ CurrentRendered =>
           /\ ~IsThrown(currentMonthSummary)
           /\ currentMonthSummary =
                  ComputeCurrentMonthSummary(WellFormed(revenueData), currentDate)
    /\ EarlierRendered =>
           /\ ~IsThrown(earlierView)
           /\ earlierView.overnightSummary = overnightSummary(WellFormed(revenueData))

\* Every entry of the data set is a string of a day of the month.
StringsOfTheMonth(data, date) ==
    \A d \in DOMAIN data : d \in 1..DaysOf(date) /\ IsString(data[d])

\* C18: the earlier variant (analyzeCellValue and the separate memos) and
\* the current one (processDayRevenue folded in one pass) apply the same
\* x1000 scale and the same strict > 150000 threshold at every call site:
\* for every per-day raw data set whose keys lie in 1..daysInMonth they give
\* the same dailyTotals, monthlyTotal, averageDailyRevenue and total
\* overnight count.
C18_VariantsAgree ==
    (CurrentRendered /\ EarlierRendered
        /\ StringsOfTheMonth(revenueData, currentDate)) =>
        /\ earlierView.dailyTotals = currentMonthSummary.dailyTotals
        /\ earlierView.monthlyTotal = currentMonthSummary.monthlyTotal
        /\ earlierView.averageDailyRevenue = currentMonthSummary.averageDailyRevenue
        /\ earlierView.overnightSummary.total = currentMonthSummary.totalOvernightStays

\* Both variants have summarised a month whose cells hold an entry of
\* exactly 150000, entries above it, and a tab between two entries.
C18_Witness ==
    /\ CurrentRendered /\ EarlierRendered
    /\ StringsOfTheMonth(revenueData, currentDate)
    /\ \E d \in DOMAIN revenueData : revenueData[d] = <<"1", "5", "0">>
    /\ \E d \in DOMAIN revenueData : "\t" \in { revenueData[d][i] : i \in 1..Len(revenueData[d]) }
    /\ earlierView.overnightSummary.total >= 2
    /\ earlierView.monthlyTotal > 0

----------------------------------------------------------------------------
(* What the specification says of the storage.                             *)

ActiveKey == StorageKey(currentDate.y, currentDate.m)

\* The two data sets agree on every day but d.
SameButDay(old, new, d) ==
    \A e \in ((DOMAIN old) \cup (DOMAIN new)) \ {d} :
        e \in DOMAIN old /\ e \in DOMAIN new /\ new[e] = old[e]

\* A step that rewrites a bucket is an edit of one day d of the active
\* month: the other buckets and the other days of the bucket keep their
\* values, and the bucket is the raw data of the view after the step.
C12_Edit ==
    storage'.data # storage.data =>
        /\ currentDate' = currentDate
        /\ \A k \in StorageKeys \ {ActiveKey} : storage'.data[k] = storage.data[k]
        /\ storage'.data[ActiveKey] = JsonText(revenueData')
        /\ \E d \in 1..DaysOf(currentDate) :
               SameButDay(DataOf(storage, currentDate), revenueData', d)

\* The raw data of the view are those of the bucket of the active month.
C12_ViewHoldsActiveBucket ==
    ~crashed => revenueData = DataOf(storage, currentDate)

\* C12: after any interleaving of cell edits and active-month switches, an
\* edit of day d while month M is active changes only entry d of the bucket
\* of M: every other day of that bucket and every other month's bucket keep
\* their stored values, and after the edit the bucket of M equals the raw
\* data of the view (data loaded for one month are never written into
\* another month's bucket).
C12_EditsOneCellOfActiveBucket ==
    []C12_ViewHoldsActiveBucket /\ [][C12_Edit]_vars

\* A cell of January was edited, then day 31 of March, whose bucket held
\* other days: both buckets are stored, March with its other days.
C12_Witness ==
    /\ ~crashed
    /\ currentDate.m = 2
    /\ storage.data[<<2024, 1>>].kind = "json"
    /\ storage.data[<<2024, 3>>] = JsonText(revenueData)
    /\ DOMAIN revenueData = {1, 2, 3, 31}
    /\ revenueData[31] = <<"2", "0", "0">>
    /\ revenueData[1] = Leftover[1]

----------------------------------------------------------------------------
(* What the specification says of the two comparison summaries.            *)

KeyOf(date) == StorageKey(date.y, date.m)

\* The stores that hold what store holds for the period of date, and
\* something else for one other period.
StoresWithSameBucket(store, date) ==
    { [store EXCEPT !.data[k] = b] :
          k \in StorageKeys \ {KeyOf(date)},
          b \in {NoItem, Corrupt, JsonText(Leftover)} }

\* The summary is what getMonthSummaryForDate gives for the period whatever
\* the buckets of the other periods hold.
OfOwnBucketOnly(summary, date, store) ==
    \A other \in StoresWithSameBucket(store, date) :
        getMonthSummaryForDate(date, other) = summary

C13_AtMount ==
    JustMounted =>
        /\ OfOwnBucketOnly(summaryA, comparisonDateA, storage)
        /\ OfOwnBucketOnly(summaryB, comparisonDateB, storage)

\* Computing the summary of a newly picked period reads the bucket of that
\* period only, writes nothing to the storage and leaves the other summary
\* as it was.
C13_WhenComputed ==
    /\ comparisonDateA' # comparisonDateA =>
           /\ OfOwnBucketOnly(summaryA', comparisonDateA', storage')
           /\ storage' = storage
           /\ summaryB' = summaryB /\ comparisonDateB' = comparisonDateB
    /\ comparisonDateB' # comparisonDateB =>
           /\ OfOwnBucketOnly(summaryB', comparisonDateB', storage')
           /\ storage' = storage
           /\ summaryA' = summaryA /\ comparisonDateA' = comparisonDateA

\* A step that changes neither a period nor its bucket (it may change the
\* bucket of any other period, or pick the other period) leaves the summary
\* of the period unchanged.
C13_Unchanged ==
    /\ (comparisonDateA' = comparisonDateA
           /\ storage'.data[KeyOf(comparisonDateA)] = storage.data[KeyOf(comparisonDateA)])
           => summaryA' = summaryA
    /\ (comparisonDateB' = comparisonDateB
           /\ storage'.data[KeyOf(comparisonDateB)] = storage.data[KeyOf(comparisonDateB)])
           => summaryB' = summaryB

\* C13: the two comparison summaries are computed independently: the
\* summary of period A is a function of the stored bucket of A only
\* (changing the bucket of any other period, or the choice of period B,
\* leaves it unchanged), and computing a summary writes nothing to the
\* storage and leaves the other summary unchanged.
C13_SummariesAreIndependent ==
    []C13_AtMount /\ [][C13_WhenComputed /\ C13_Unchanged]_vars

\* Period B was picked while A stayed: A has revenue, B has none.
C13_Witness ==
    /\ ~crashed
    /\ steps > 0
    /\ comparisonDateB.d = 2
    /\ comparisonDateA.d # 2
    /\ summaryA.monthlyTotal > 0
    /\ summaryB.monthlyTotal = 0
    /\ summaryB.averageDailyRevenue = ZeroDouble

----------------------------------------------------------------------------
(* What the specification says of the export.                              *)

\* The text read back as a reader of comma-separated files reads it: a line
\* break outside quotes ends a row, a comma outside quotes ends a field, and
\* inside a quoted field two double quotes stand for one.

\* One row read from position i of the text: its fields, and the position
\* after the line break that ends it.
RECURSIVE ReadRow(_, _, _, _, _)
ReadRow(s, i, inQuotes, field, fields) ==
    IF i > Len(s) THEN [fields |-> Append(fields, field), next |-> i]
    ELSE IF inQuotes
    THEN IF s[i] # "\"" THEN ReadRow(s, i + 1, TRUE, Append(field, s[i]), fields)
         ELSE IF i < Len(s) /\ s[i + 1] = "\""
              THEN ReadRow(s, i + 2, TRUE, Append(field, "\""), fields)
              ELSE ReadRow(s, i + 1, FALSE, field, fields)
    ELSE IF s[i] = "\"" THEN ReadRow(s, i + 1, TRUE, field, fields)
    ELSE IF s[i] = "," THEN ReadRow(s, i + 1, FALSE, <<>>, Append(fields, field))
    ELSE IF s[i] = "\n" THEN [fields |-> Append(fields, field), next |-> i + 1]
    ELSE ReadRow(s, i + 1, FALSE, Append(field, s[i]), fields)

RECURSIVE ReadRows(_, _, _)
ReadRows(s, i, rows) ==
    CHOOSE all \in
        { IF row.next > Len(s) THEN Append(rows, row.fields)
          ELSE ReadRows(s, row.next, Append(rows, row.fields)) :
              row \in {ReadRow(s, i, FALSE, <<>>, <<>>)} } : TRUE

ReadCsv(s) == ReadRows(s, 1, <<>>)

\* A field that is the plain decimal writing of the integer n: digits only
\* after an optional '-', no grouping, no leading zero.
IsPlainInteger(field, n) ==
    LET digits == IF field # <<>> /\ Head(field) = "-" THEN Tail(field) ELSE field
    IN  /\ digits # <<>>
        /\ \A i \in 1..Len(digits) : IsDigit(digits[i])
        /\ Len(digits) > 1 => digits[1] # "0"
        /\ (field[1] = "-") = (n < 0)
        /\ DecimalValue(digits, 0) = (IF n < 0 THEN 0 - n ELSE n)

\* The raw string stored for day d of the active month ('' when none is).
StoredRaw(d) ==
    LET data == DataOf(storage, currentDate)
    IN  IF d \in DOMAIN data /\ IsString(data[d]) THEN data[d] ELSE <<>>

\* The file has, after the header, one row per day of the active month in
\* ascending order: the day, the stored raw string, the day's total.
IsExportOfMonth(file) ==
    \A rows \in {ReadCsv(file.rows)} :
        /\ file.header = CsvHeader
        /\ Len(rows) = DaysOf(currentDate)
        /\ \A i \in 1..Len(rows) :
               /\ Len(rows[i]) = 3
               /\ IsPlainInteger(rows[i][1], i)
               /\ rows[i][2] = StoredRaw(i)
               /\ IsPlainInteger(rows[i][3], currentMonthSummary.dailyTotals[i].total)

\* C15: the export produces, after the header, exactly one row per day
\* 1..daysInMonth in ascending order whatever the current search filter is;
\* each row is the day, the day's stored raw string wrapped in double quotes
\* with every internal double quote doubled, and the day's total as a plain
\* unformatted integer equal to dailyTotals' total for that day.
C15_ExportHasEveryDay ==
    [][handleExport => IsExportOfMonth(csvContent)']_vars

\* The month was exported while the search box filtered days out of the
\* table; a raw string of the month holds double quotes, and a day's total
\* is negative.
C15_Witness ==
    /\ ~crashed
    /\ csvContent # NoFile
    /\ csvContent = CsvContent(currentMonthSummary.dailyTotals, revenueData)
    /\ Trim(searchTerm) # <<>>
    /\ Len(filteredDailyTotals) < Len(currentMonthSummary.dailyTotals)
    /\ \E d \in DOMAIN revenueData : Includes(revenueData[d], <<"\"">>)
    /\ \E i \in 1..Len(currentMonthSummary.dailyTotals) :
           currentMonthSummary.dailyTotals[i].total < 0


----------------------------------------------------------------------------
(* What the specification says of the values entered through the table.    *)

IsAllowed(c) == IsDigit(c) \/ IsWhiteSpace(c) \/ c \in {".", ","}

\* The places of a typed string whose character is kept.
KeptPositions(in) == { i \in 1..Len(in) : IsAllowed(in[i]) }

\* The kept place before place i, and 0 when there is none.
PreviousKept(in, i) ==
    LET before == { k \in KeptPositions(in) : k < i }
    IN  IF before = {} THEN 0
        ELSE CHOOSE k \in before : \A l \in before : l <= k

\* The kept places that are no white space, or the first of a run of white
\* space among the kept characters.
RunHeads(in) ==
    { i \in KeptPositions(in) :
        \/ ~IsWhiteSpace(in[i])
        \/ PreviousKept(in, i) = 0
        \/ ~IsWhiteSpace(in[PreviousKept(in, i)]) }

Nth(S, j) == CHOOSE i \in S : Cardinality({ k \in S : k < i }) = j - 1

\* out is in without the characters that are not allowed and with one space
\* for every run of white space left.
IsFilteringOf(out, in) ==
    /\ Len(out) = Cardinality(RunHeads(in))
    /\ \A j \in 1..Len(out) :
          \E i \in {Nth(RunHeads(in), j)} :
              out[j] = IF IsWhiteSpace(in[i]) THEN " " ELSE in[i]

\* Digits, '.', ',' and single spaces only.
IsClean(v) ==
    /\ \A i \in 1..Len(v) : IsDigit(v[i]) \/ v[i] \in {".", ",", " "}
    /\ \A i \in 1..(Len(v) - 1) : ~(v[i] = " " /\ v[i + 1] = " ")

\* The change event of the cell of some day stores the filtered text.
C17_Stored ==
    \A day \in EditDays :
        changeCell(day) =>
            /\ day \in DOMAIN revenueData'
            /\ IsFilteringOf(revenueData'[day], typed)
            /\ storage'.data[ActiveKey] = JsonText(revenueData')

\* Every cell held is clean, and filtering it again gives the cell itself.
C17_CellsAreClean ==
    \A d \in DOMAIN revenueData :
        /\ IsClean(revenueData[d])
        /\ IsFilteringOf(revenueData[d], revenueData[d])
        /\ DataOf(storage, currentDate) = revenueData

\* C17: for every string typed into a cell, the value stored by
\* handleRevenueChange is the input with every character other than a
\* digit, white space, '.' or ',' removed and every run of white space
\* replaced by one space; so after any sequence of edits every cell written
\* by the handler contains only digits, '.', ',' and single spaces, and
\* filtering a stored value again leaves it unchanged.
C17_StoredIsFilteredInput ==
    []C17_CellsAreClean /\ [][C17_Stored]_vars

\* Letters between the spaces of the typed text were removed and the two
\* spaces left became one; the white space at both ends of another cell
\* became one space each.
C17_Witness ==
    /\ typed = <<"a", "5", " ", "b", " ", "6">>
    /\ DOMAIN revenueData = {1, 31}
    /\ revenueData[1] = <<"5", " ", "6">>
    /\ revenueData[31] = <<" ", "5", "0", " ", "1", "5", "1", " ">>
    /\ storage.data[ActiveKey] = JsonText(revenueData)

\* The parser reads the cell as its white-space tokens, each of them digits
\* with '.' and ',' only, and adds up the amounts of all of them.
ReadsEveryToken(v) ==
    \E r \in {processDayRevenue(v)}, ts \in {WhiteSpaceTokens(v)} :
        /\ ~IsThrown(r)
        /\ Entries(v) = ts
        /\ \A i \in 1..Len(ts) :
              /\ \A k \in 1..Len(ts[i]) : IsDigit(ts[i][k]) \/ ts[i][k] \in {".", ","}
              /\ multipliedValue(ts[i]) = TokenAmount(ts[i])
        /\ r.total >= 0
        /\ r.total % 1000 = 0
        /\ r.total = SumOfAmounts(ts)
        /\ r.overnightCount = Cardinality(OvernightTokens(ts))
        /\ r.hasOvernight = (OvernightTokens(ts) # {})

\* C19: for every cell value that reached storage through
\* handleRevenueChange (any sequence of edits, starting from empty storage),
\* processDayRevenue splits it exactly at its runs of white space, returns a
\* total >= 0 that is a multiple of 1000, and counts every token: no token
\* is lost and no amount is negative, and the day's total shown is that sum.
C19_TableCellsParseWhole ==
    \A d \in DOMAIN DataOf(storage, currentDate) :
        /\ ReadsEveryToken(DataOf(storage, currentDate)[d])
        /\ ~IsThrown(currentMonthSummary)
        /\ currentMonthSummary.dailyTotals[d].total =
               SumOfAmounts(WhiteSpaceTokens(DataOf(storage, currentDate)[d]))

\* A tab between two amounts and a '-' were typed: the cell stored has two
\* tokens and both are counted, one of them over the threshold.
C19_Witness ==
    /\ typed = <<"5", "0", "\t", "2", "0", "0">>
    /\ DOMAIN revenueData = {1, 31}
    /\ revenueData[1] = <<"5", "0", " ", "2", "0", "0">>
    /\ revenueData[31] = <<"5">>
    /\ storage.data[ActiveKey] = JsonText(revenueData)
    /\ currentMonthSummary.dailyTotals[1].total = 250000
    /\ currentMonthSummary.dailyTotals[31].total = 5000
    /\ currentMonthSummary.totalOvernightStays = 1


----------------------------------------------------------------------------
(* What the specification says of the chart of the compare view.           *)

\* Some entry of data for the day has this total, or there is no entry for
\* the day and the total is 0.
IsTotalOfDay(total, data, day) ==
    IF \E i \in 1..Len(data) : data[i].day = day
    THEN \E i \in 1..Len(data) : data[i].day = day /\ data[i].total = total
    ELSE total = 0

ChartRendered == chartData # NoResult

\* C20: for any two daily-total sequences A and B and any two period names,
\* ComparisonChart builds exactly max(|A|, |B|, 28) rows; row i (0-based)
\* is labelled with day i+1 and carries, under nameA, the total of A's entry
\* for day i+1 (0 when A has none) and, under nameB, the total of B's entry
\* for day i+1 (0 when absent), also when both periods have the same name.
C20_RowCarriesBothTotals ==
    ChartRendered =>
        /\ Len(chartData) >= MinRows
        /\ Len(chartData) >= Len(props.dataA)
        /\ Len(chartData) >= Len(props.dataB)
        /\ Len(chartData) \in {MinRows, Len(props.dataA), Len(props.dataB)}
        /\ \A day \in 1..Len(chartData) :
              /\ chartData[day]["name"] = DayLabel(day)
              /\ IsTotalOfDay(chartData[day][props.nameA], props.dataA, day)
              /\ IsTotalOfDay(chartData[day][props.nameB], props.dataB, day)


----------------------------------------------------------------------------
(* What the specification says of the per-room data.                       *)

\* The sum of the Entry Parser's totals over the rooms S of a day.
RECURSIVE TotalOfRooms(_, _)
TotalOfRooms(rooms, S) ==
    IF S = {} THEN 0
    ELSE LET room == CHOOSE r \in S : TRUE
         IN  processDayRevenue(rooms[room]).total + TotalOfRooms(rooms, S \ {room})

\* The tokens of a cell over the threshold.
TokensOver(cell) == Cardinality(OvernightTokens(WhiteSpaceTokens(cell)))

\* The tokens over the threshold of a room on the days D.
RECURSIVE OvernightOfRoom(_, _, _)
OvernightOfRoom(data, room, D) ==
    IF D = {} THEN 0
    ELSE LET day == CHOOSE d \in D : TRUE
         IN  TokensOver(data[day][room]) + OvernightOfRoom(data, room, D \ {day})

DaysOfRoom(data, room) == { d \in DOMAIN data : room \in DOMAIN data[d] }

RoomsSummarized == roomSummary # NoResult

----------------------------------------------------------------------------
(* What the specification says of the comparison periods at start-up.      *)

\* The calendar month immediately before the month of date.
MonthBefore(date) ==
    IF date.m = 0 THEN [y |-> date.y - 1, m |-> 11]
    ELSE [y |-> date.y, m |-> date.m - 1]

IsInMonth(date, month) == date.y = month.y /\ date.m = month.m

\* C21: at start-up, for every possible current date, comparison period A
\* is the current calendar month and comparison period B is the calendar
\* month immediately before it (the year stepping back when the current
\* month is January), whatever the day of the month is, the 29th, 30th and
\* 31st included.
C21_PeriodBIsMonthBefore ==
    JustMounted =>
        /\ comparisonDateA \in Todays
        /\ IsInMonth(comparisonDateB, MonthBefore(comparisonDateA))
        /\ (~crashed => summaryB.monthName = MonthName(MonthBefore(comparisonDateA)))

====
